---- MODULE Spec2Model ----
(***************************************************************************)
(* Model of conformance/src/type_checker.py: the four type-checker         *)
(* adapters (mypy, pyright, pyre, pytype), their install, get_version and  *)
(* run_tests methods, and pytype's enforce_consistent_order.               *)
(*                                                                         *)
(* A Python str is a sequence of one-character strings; a dict[str, str]   *)
(* is a function whose domain is the set of its keys.                      *)
(***************************************************************************)
EXTENDS Integers, Sequences, FiniteSets, TLC

VARIABLES
    checker,      \* the adapter the driver is using (its name property)
    stdout,       \* proc.stdout of the subprocess the text adapters and get_version run
    output_json,  \* pyright: what json.loads(proc.stdout) yields
    listing,      \* pytype: os.listdir(".") with what each entry holds
    env,          \* install: which steps of the installation fail
    reports       \* the calls made so far: argument and outcome of each

vars == <<checker, stdout, output_json, listing, env, reports>>

\* ------------------------------------------------------------------ bounds
MaxOut == 4       \* longest captured stdout of a text adapter
MaxCalls == 2     \* calls the driver makes in one session

\* ------------------------------------------------------------- Python str
NL == "\n"
Whitespace == {" ", NL, "\t"}

\* All sequences over S of length at most n.
SeqsUpTo(S, n) == UNION {[1..k -> S] : k \in 0..n}

RECURSIVE Concat(_)
\* "".join(ss)
Concat(ss) == IF ss = <<>> THEN <<>> ELSE Head(ss) \o Concat(Tail(ss))

RECURSIVE LStrip(_)
LStrip(s) == IF s # <<>> /\ Head(s) \in Whitespace THEN LStrip(Tail(s)) ELSE s

RECURSIVE RStrip(_)
RStrip(s) ==
    IF s # <<>> /\ s[Len(s)] \in Whitespace
    THEN RStrip(SubSeq(s, 1, Len(s) - 1)) ELSE s

\* str.strip(): whitespace removed at both ends, kept inside.
Strip(s) == RStrip(LStrip(s))

\* Whether pat occurs in s at position i.
MatchAt(s, pat, i) ==
    /\ i + Len(pat) - 1 <= Len(s)
    /\ \A j \in 1..Len(pat) : s[i + j - 1] = pat[j]

\* The first position of pat in s, 0 when there is none (str.find, one-based).
Find(s, pat) ==
    IF \E i \in 1..Len(s) : MatchAt(s, pat, i)
    THEN CHOOSE i \in 1..Len(s) :
            MatchAt(s, pat, i) /\ \A j \in 1..(i - 1) : ~MatchAt(s, pat, j)
    ELSE 0

RECURSIVE Split(_, _)
\* str.split(sep): one more piece than there are separators, empty pieces kept.
Split(s, sep) ==
    LET i == Find(s, sep) IN
    IF i = 0 THEN <<s>>
    ELSE <<SubSeq(s, 1, i - 1)>> \o Split(SubSeq(s, i + Len(sep), Len(s)), sep)

RECURSIVE Replace(_, _, _)
\* str.replace(old, new): every occurrence, left to right.
Replace(s, old, new) ==
    LET i == Find(s, old) IN
    IF i = 0 THEN s
    ELSE SubSeq(s, 1, i - 1) \o new \o Replace(SubSeq(s, i + Len(old), Len(s)), old, new)

\* The lines a report value holds: its pieces, without the empty piece
\* that follows the last newline.
LinesOf(value) ==
    LET pieces == Split(value, <<NL>>) IN SubSeq(pieces, 1, Len(pieces) - 1)

\* dict.get(key, default)
Get(d, key, default) == IF key \in DOMAIN d THEN d[key] ELSE default

\* d[key] = value
Put(d, key, value) ==
    [k \in DOMAIN d \cup {key} |-> IF k = key THEN value ELSE d[k]]

EmptyDict == [k \in {} |-> <<>>]

\* ------------------------------------------------- the driver's arguments
\* Values the driver passes as test_files.
TestFileArgs == {<<>>, <<<<"a">>, <<"b", ".", "p", "y">>>>}

\* A call that returned a report, and one that let an exception escape.
Returned(tf, d) == [test_files |-> tf, raised |-> <<>>, result |-> d]
Raised(tf, exc) == [test_files |-> tf, raised |-> exc, result |-> EmptyDict]

\* --------------------------------------------- text adapters (mypy, pyre)
\* Faulty variant: the key is not stripped.
FileNameMissingStrip(line) == Split(line, <<":">>)[1]
\* file_name = line.split(":")[0].strip()
FileNameOf(line) == Strip(Split(line, <<":">>)[1])

\* One pass of the loop body: results_dict[file_name] = results_dict.get(file_name, "") + line + "\n"
AddLine(d, line) ==
    LET file_name == FileNameOf(line) IN
    Put(d, file_name, Get(d, file_name, <<>>) \o line \o <<NL>>)

RECURSIVE AddLines(_, _)
\* for line in lines: ...
AddLines(d, lines) ==
    IF lines = <<>> THEN d ELSE AddLines(AddLine(d, Head(lines)), Tail(lines))

\* Faulty variant: a key keeps its first line only.
TextReportFirstLineWins(out) ==
    LET lines == Split(out, <<NL>>) IN
    [k \in {FileNameOf(lines[i]) : i \in DOMAIN lines} |->
        LET i == CHOOSE i \in DOMAIN lines :
                    FileNameOf(lines[i]) = k
                    /\ \A j \in 1..(i - 1) : FileNameOf(lines[j]) # k
        IN lines[i] \o <<NL>>]

\* The report the text adapters build from the captured stdout.
TextReport(out) == AddLines(EmptyDict, Split(out, <<NL>>))

\* Faulty variant: only the files named in test_files are reported.
MypyRunTestsOnlyTestFiles ==
    /\ checker = "mypy"
    /\ Len(reports) < MaxCalls
    /\ \E test_files \in TestFileArgs :
        LET d == TextReport(stdout)
            named == {k \in DOMAIN d : \E i \in DOMAIN test_files : test_files[i] = k}
        IN reports' = Append(reports, Returned(test_files, [k \in named |-> d[k]]))
    /\ UNCHANGED <<checker, stdout, output_json, listing, env>>

\* mypy's run_tests: the subprocess runs over ".", test_files is not read.
MypyRunTests ==
    /\ checker = "mypy"
    /\ Len(reports) < MaxCalls
    /\ \E test_files \in TestFileArgs :
        reports' = Append(reports, Returned(test_files, TextReport(stdout)))
    /\ UNCHANGED <<checker, stdout, output_json, listing, env>>

\* pyre's run_tests: the subprocess runs over ".", test_files is not read.
PyreRunTests ==
    /\ checker = "pyre"
    /\ Len(reports) < MaxCalls
    /\ \E test_files \in TestFileArgs :
        reports' = Append(reports, Returned(test_files, TextReport(stdout)))
    /\ UNCHANGED <<checker, stdout, output_json, listing, env>>

TextChars == {"a", ":", " ", NL}

InitText ==
    /\ checker \in {"mypy", "pyre"}
    /\ stdout \in SeqsUpTo(TextChars, MaxOut)
    /\ output_json = <<>>
    /\ listing = <<>>
    /\ env = <<>>
    /\ reports = <<>>

NextText == MypyRunTests \/ PyreRunTests

SpecText == InitText /\ [][NextText]_vars

\* ------------------------------------------------------ pyright adapter
Digits == <<"0", "1", "2", "3", "4", "5", "6", "7", "8", "9">>

RECURSIVE DecStr(_)
\* str(n) of a non-negative int, as an f-string renders it.
DecStr(n) == IF n < 10 THEN <<Digits[n + 1]>> ELSE DecStr(n \div 10) \o <<Digits[(n % 10) + 1]>>

\* Path(p).name: the last component of the path, "" when it has none.
PathName(p) ==
    LET Part(c) == c # <<>> /\ c # <<".">>
        parts == SelectSeq(Split(p, <<"/">>), Part)
    IN IF parts = <<>> THEN <<>> ELSE parts[Len(parts)]

\* Faulty variant: the zero-based position is printed as it is.
LineTextZeroBased(diagnostic) ==
    PathName(Get(diagnostic, "file", <<>>))
        \o <<":">> \o DecStr(diagnostic["range"].start.line)
        \o <<":">> \o DecStr(diagnostic["range"].start.character)
        \o <<" ", "-", " ">> \o diagnostic["severity"] \o <<":", " ">> \o diagnostic["message"]
        \o (IF "rule" \in DOMAIN diagnostic
            THEN <<" ", "(">> \o diagnostic["rule"] \o <<")">> ELSE <<>>)
        \o <<NL>>

\* line_text = f"{file_name}:{line_number}:{col_number} - {severity}: {message}{rule}\n"
LineText(diagnostic) ==
    LET file_name == PathName(Get(diagnostic, "file", <<>>))
        line_number == diagnostic["range"].start.line + 1
        col_number == diagnostic["range"].start.character + 1
        severity == diagnostic["severity"]
        message == diagnostic["message"]
        rule == IF "rule" \in DOMAIN diagnostic
                THEN <<" ", "(">> \o diagnostic["rule"] \o <<")">> ELSE <<>>
    IN file_name \o <<":">> \o DecStr(line_number) \o <<":">> \o DecStr(col_number)
        \o <<" ", "-", " ">> \o severity \o <<":", " ">> \o message \o rule \o <<NL>>

\* One pass of the loop body.
AddDiagnostic(d, diagnostic) ==
    LET file_name == PathName(Get(diagnostic, "file", <<>>)) IN
    Put(d, file_name, Get(d, file_name, <<>>) \o LineText(diagnostic))

RECURSIVE AddDiagnostics(_, _)
\* for diagnostic in diagnostics: ...
AddDiagnostics(d, diagnostics) ==
    IF diagnostics = <<>> THEN d
    ELSE AddDiagnostics(AddDiagnostic(d, Head(diagnostics)), Tail(diagnostics))

\* Faulty variant: the diagnostics are taken last to first.
PyrightReportPrepends(diagnostics) ==
    AddDiagnostics(EmptyDict,
                   [i \in DOMAIN diagnostics |-> diagnostics[Len(diagnostics) + 1 - i]])

\* The report pyright's run_tests builds from the generalDiagnostics array.
PyrightReport(diagnostics) == AddDiagnostics(EmptyDict, diagnostics)

\* json.loads raises on malformed output and run_tests lets it through.
PyrightRunTests ==
    /\ checker = "pyright"
    /\ Len(reports) < MaxCalls
    /\ \E test_files \in TestFileArgs :
        reports' = Append(reports,
            IF output_json.valid
            THEN Returned(test_files, PyrightReport(output_json.generalDiagnostics))
            ELSE Raised(test_files, <<"J", "S", "O", "N", "D", "e", "c", "o", "d", "e", "E", "r", "r", "o", "r">>))
    /\ UNCHANGED <<checker, stdout, output_json, listing, env>>

MaxDiags == 2     \* longest generalDiagnostics array

\* Diagnostics pyright can emit: the file and rule fields are optional.
PyrightFiles == {<<"/", "d", "/", "a">>, <<"b">>}
PyrightRequired ==
    {[range |-> [start |-> [line |-> 0, character |-> 10]],
      severity |-> <<"e", "r", "r", "o", "r">>, message |-> <<"m">>],
     [range |-> [start |-> [line |-> 11, character |-> 0]],
      severity |-> <<"w", "a", "r", "n", "i", "n", "g">>, message |-> <<"m">>]}
PyrightDiagnostics ==
    LET withFile == PyrightRequired
            \cup {f @@ r : f \in {[file |-> p] : p \in PyrightFiles}, r \in PyrightRequired}
    IN withFile \cup {w @@ [rule |-> <<"r">>] : w \in withFile}

InitPyright ==
    /\ checker = "pyright"
    /\ stdout = <<>>
    /\ output_json \in {[valid |-> FALSE, generalDiagnostics |-> <<>>]}
            \cup {[valid |-> TRUE, generalDiagnostics |-> ds] :
                    ds \in SeqsUpTo(PyrightDiagnostics, MaxDiags)}
    /\ listing = <<>>
    /\ env = <<>>
    /\ reports = <<>>

NextPyright == PyrightRunTests

SpecPyright == InitPyright /\ [][NextPyright]_vars

\* -------------------------------------------- claims on the pyright adapter
\* The one-based position a formatted line must carry for a diagnostic.
ExpectedLine(diagnostic) ==
    LET name == PathName(Get(diagnostic, "file", <<>>))
        pos == <<":">> \o DecStr(diagnostic["range"].start.line + 1)
                \o <<":">> \o DecStr(diagnostic["range"].start.character + 1)
        tail == <<" ", "-", " ">> \o diagnostic["severity"] \o <<":", " ">>
                \o diagnostic["message"]
    IN IF "rule" \in DOMAIN diagnostic
       THEN name \o pos \o tail \o <<" ", "(">> \o diagnostic["rule"] \o <<")", NL>>
       ELSE name \o pos \o tail \o <<NL>>

\* C9: under each key the report holds, in the order pyright emitted them,
\* one formatted line per diagnostic whose file basename is the key, with
\* one-based line and column, severity, message and the rule in parentheses
\* exactly when the diagnostic has one; no diagnostic is dropped or reordered.
C9_PyrightReport ==
    \A n \in DOMAIN reports :
        reports[n].raised = <<>> =>
            LET ds == output_json.generalDiagnostics
                d == reports[n].result
                Of(k) == LET T(x) == PathName(Get(x, "file", <<>>)) = k
                         IN SelectSeq(ds, T)
            IN /\ DOMAIN d = {PathName(Get(ds[i], "file", <<>>)) : i \in DOMAIN ds}
               /\ \A k \in DOMAIN d :
                    d[k] = Concat([i \in DOMAIN Of(k) |-> ExpectedLine(Of(k)[i])])

\* Two different diagnostics of one file, the first without a rule and the
\* second with one, were formatted under its key.
C9_Witness ==
    /\ reports # <<>>
    /\ reports[1].raised = <<>>
    /\ LET ds == output_json.generalDiagnostics IN
        /\ Len(ds) = 2
        /\ "file" \in DOMAIN ds[1] /\ "file" \in DOMAIN ds[2]
        /\ PathName(ds[1]["file"]) = PathName(ds[2]["file"])
        /\ "rule" \notin DOMAIN ds[1] /\ "rule" \in DOMAIN ds[2]
        /\ ds[1]["range"] # ds[2]["range"]
        /\ Len(LinesOf(reports[1].result[PathName(ds[1]["file"])])) = 2

\* ------------------------------------------------------- pytype adapter
MaxErrors == 3    \* most diagnostics in one pytype error log
MaxFiles == 2     \* most entries of the working directory

\* ord(c) of the characters messages are made of.
Ord(c) == CASE c = "A" -> 65 [] c = "B" -> 66 [] OTHER -> 0

RECURSIVE StrLess(_, _)
\* a < b on Python str: lexicographic, a proper prefix is smaller.
StrLess(a, b) ==
    IF b = <<>> THEN FALSE
    ELSE IF a = <<>> THEN TRUE
    ELSE IF Head(a) # Head(b) THEN Ord(Head(a)) < Ord(Head(b))
    ELSE StrLess(Tail(a), Tail(b))

\* str(err) of a pytype error: its line, its message and, when it has any,
\* its details on a further line.
ErrStr(err) ==
    <<"l", "i", "n", "e", " ">> \o DecStr(err.lineno) \o <<":", " ">> \o err.message
        \o (IF err.details = <<>> THEN <<>> ELSE <<NL, " ", " ">> \o err.details)

RECURSIVE Join(_, _)
\* sep.join(ss)
Join(sep, ss) ==
    IF ss = <<>> THEN <<>>
    ELSE IF Len(ss) = 1 THEN ss[1]
    ELSE ss[1] \o sep \o Join(sep, Tail(ss))

\* Faulty variant: the details are kept.
ErrorSorterKeepsDetails(err) == err
\* ErrorSorter.__init__: err._details = ""
ErrorSorterInit(err) == [err EXCEPT !.details = <<>>]

\* Faulty variant: same-line errors in ascending message order.
ErrorSorterLtForward(self, other) ==
    IF self.lineno - other.lineno # 0
    THEN self.lineno - other.lineno < 0
    ELSE StrLess(self.message, other.message)
\* ErrorSorter.__lt__
ErrorSorterLt(self, other) ==
    LET lineno_diff == self.lineno - other.lineno IN
    IF lineno_diff # 0 THEN lineno_diff < 0
    ELSE StrLess(other.message, self.message)

\* list.sort is stable and compares with < only: x goes before the first
\* element it is smaller than.
InsertSorted(sorted, x) ==
    LET before == {i \in DOMAIN sorted : ErrorSorterLt(x, sorted[i])}
        at == IF before = {} THEN Len(sorted) + 1
              ELSE CHOOSE i \in before : \A j \in before : i <= j
    IN SubSeq(sorted, 1, at - 1) \o <<x>> \o SubSeq(sorted, at, Len(sorted))

RECURSIVE SortFrom(_, _)
SortFrom(sorted, rest) ==
    IF rest = <<>> THEN sorted ELSE SortFrom(InsertSorted(sorted, Head(rest)), Tail(rest))

\* errors.sort(key=ErrorSorter): the key is built once for each error, which
\* blanks its details, and the errors are put in the order of their keys.
SortErrors(errors) ==
    SortFrom(<<>>, [i \in DOMAIN errors |-> ErrorSorterInit(errors[i])])

\* enforce_consistent_order(log), errors being what log.unique_sorted_errors() yields.
EnforceConsistentOrder(errors) ==
    LET sorted == SortErrors(errors) IN
    Join(<<NL>>, [i \in DOMAIN sorted |-> ErrStr(sorted[i])]) \o <<NL>>

\* What unique_sorted_errors() may yield: by line number, no error twice.
IsErrorLog(errors) ==
    /\ \A i, j \in DOMAIN errors : i < j => errors[i].lineno <= errors[j].lineno
    /\ \A i, j \in DOMAIN errors : i # j => errors[i] # errors[j]

Perms(n) == {p \in [1..n -> 1..n] : \A i, j \in 1..n : i # j => p[i] # p[j]}

DetailsValues == {<<>>, <<"x">>}

\* The logs another run of pytype may yield for the same diagnostics: the
\* same-line errors in any order, any details.
Reruns(errors) ==
    LET n == Len(errors) IN
    {v \in {[i \in 1..n |-> [errors[p[i]] EXCEPT !.details = dt[i]]] :
                p \in Perms(n), dt \in [1..n -> DetailsValues]} : IsErrorLog(v)}

EndsWith(s, suffix) ==
    Len(s) >= Len(suffix) /\ SubSeq(s, Len(s) - Len(suffix) + 1, Len(s)) = suffix

RECURSIVE PytypeLoop(_, _, _)
\* The loop over os.listdir("."): entries[i] is the directory entry, logs[i]
\* the error log check_py yields for it in this run. open() and read() are
\* outside the try, and the try catches Exception only: what they raise, and
\* a BaseException of check_py, leaves run_tests.
PytypeLoop(d, entries, logs) ==
    IF entries = <<>> THEN [raised |-> <<>>, result |-> d]
    ELSE LET e == Head(entries)
             fi == e.name
         IN IF ~EndsWith(fi, <<".", "p", "y">>)
            THEN PytypeLoop(d, Tail(entries), Tail(logs))
            ELSE IF ~e.readable
            THEN [raised |-> e.class, result |-> EmptyDict]
            ELSE IF e.analysis = "BaseException"
            THEN [raised |-> e.class, result |-> EmptyDict]
            ELSE IF e.analysis = "Exception"
            THEN PytypeLoop(Put(d, fi, e.class \o <<":", " ">> \o e.msg \o <<NL>>),
                            Tail(entries), Tail(logs))
            ELSE PytypeLoop(Put(d, fi, EnforceConsistentOrder(Head(logs))),
                            Tail(entries), Tail(logs))

RECURSIVE RerunsOfListing(_)
\* For each entry, a log this run of pytype may yield.
RerunsOfListing(entries) ==
    IF entries = <<>> THEN {<<>>}
    ELSE {<<v>> \o rest : v \in Reruns(Head(entries).errors),
                          rest \in RerunsOfListing(Tail(entries))}

PytypeRunTests ==
    /\ checker = "pytype"
    /\ Len(reports) < MaxCalls
    /\ \E test_files \in TestFileArgs : \E logs \in RerunsOfListing(listing) :
        LET r == PytypeLoop(EmptyDict, listing, logs) IN
        reports' = Append(reports,
            IF r.raised = <<>> THEN Returned(test_files, r.result)
            ELSE Raised(test_files, r.raised))
    /\ UNCHANGED <<checker, stdout, output_json, listing, env>>

\* enforce_consistent_order applied to the log one run of pytype yields for
\* the file, recording whether that run yielded the errors in another order
\* or with other details than the listing holds.
EnforceConsistentOrderCall ==
    /\ checker = "pytype"
    /\ Len(reports) < MaxCalls
    /\ \E log \in Reruns(listing[1].errors) :
        reports' = Append(reports,
            [reordered |-> \E i \in DOMAIN log : log[i].message # listing[1].errors[i].message,
             redetailed |-> \E i \in DOMAIN log : log[i].details # listing[1].errors[i].details,
             result |-> EnforceConsistentOrder(log)])
    /\ UNCHANGED <<checker, stdout, output_json, listing, env>>

PyA == <<"a", ".", "p", "y">>
PyB == <<"b", ".", "p", "y">>
Txt == <<"c">>

Messages == {<<"A">>, <<"B">>}
Errors == [lineno : {3, 10}, message : Messages, details : DetailsValues]
ErrorLogs == {log \in SeqsUpTo(Errors, MaxErrors) : IsErrorLog(log)}

LogEntry(name, errors) ==
    [name |-> name, readable |-> TRUE, analysis |-> "log", errors |-> errors,
     class |-> <<>>, msg |-> <<>>]

InitOrder ==
    /\ checker = "pytype"
    /\ stdout = <<>>
    /\ output_json = <<>>
    /\ listing \in {<<LogEntry(PyA, log)>> : log \in ErrorLogs}
    /\ env = <<>>
    /\ reports = <<>>

NextOrder == EnforceConsistentOrderCall

SpecOrder == InitOrder /\ [][NextOrder]_vars

\* What a directory entry can hold.
OSErrorName == <<"O", "S", "E", "r", "r", "o", "r">>
ValueErrorName == <<"V", "a", "l", "u", "e", "E", "r", "r", "o", "r">>
SystemExitName == <<"S", "y", "s", "t", "e", "m", "E", "x", "i", "t">>

\* An entry open() or read() fails on, one check_py raises an Exception or
\* a BaseException on, and entries pytype analyses.
Contents(name) ==
    {[name |-> name, readable |-> FALSE, analysis |-> "log", errors |-> <<>>,
      class |-> OSErrorName, msg |-> <<"m">>],
     [name |-> name, readable |-> TRUE, analysis |-> "Exception", errors |-> <<>>,
      class |-> ValueErrorName, msg |-> <<"m">>],
     [name |-> name, readable |-> TRUE, analysis |-> "BaseException", errors |-> <<>>,
      class |-> SystemExitName, msg |-> <<"m">>],
     LogEntry(name, <<>>),
     LogEntry(name, <<[lineno |-> 3, message |-> <<"A">>, details |-> <<"x">>]>>),
     LogEntry(name, <<[lineno |-> 3, message |-> <<"A">>, details |-> <<>>],
                      [lineno |-> 3, message |-> <<"B">>, details |-> <<>>]>>)}

Entries == UNION {Contents(name) : name \in {PyA, PyB, Txt}}

\* os.listdir("."): no name twice, in any order.
Listings ==
    {l \in SeqsUpTo(Entries, MaxFiles) :
        \A i, j \in DOMAIN l : i # j => l[i].name # l[j].name}

InitPytype ==
    /\ checker = "pytype"
    /\ stdout = <<>>
    /\ output_json = <<>>
    /\ listing \in Listings
    /\ env = <<>>
    /\ reports = <<>>

NextPytype == PytypeRunTests

SpecPytype == InitPytype /\ [][NextPytype]_vars

\* ------------------------------------------ claims on pytype's run_tests
PyEntries == {i \in DOMAIN listing : EndsWith(listing[i].name, <<".", "p", "y">>)}

\* Processing the entry raises: reading it, or analysing it.
Fails(e) == ~e.readable \/ e.analysis # "log"

\* C3 as stated: whatever subset of the .py files raises when processed,
\* run_tests returns normally, the report has exactly one key per .py file,
\* a failing file's entry is "<exception class name>: <message>" and a
\* newline, and the other entries are what they are when no file fails.
C3_AsStated ==
    \A n \in DOMAIN reports :
        /\ reports[n].raised = <<>>
        /\ DOMAIN reports[n].result = {listing[i].name : i \in PyEntries}
        /\ \A i \in PyEntries :
            reports[n].result[listing[i].name] =
                IF Fails(listing[i])
                THEN listing[i].class \o <<":", " ">> \o listing[i].msg \o <<NL>>
                ELSE EnforceConsistentOrder(listing[i].errors)

\* ------------------------------------------------ the four run_tests
Init == InitText \/ InitPyright \/ InitPytype

Next == MypyRunTests \/ PyrightRunTests \/ PyreRunTests \/ PytypeRunTests

Spec == Init /\ [][Next]_vars

MaxVer == 4       \* longest raw output of a version query, the label aside

ClientVersion ==
    <<"C", "l", "i", "e", "n", "t", " ", "v", "e", "r", "s", "i", "o", "n", ":">>

\* Faulty variant: the " (compiled)" suffix is kept.
MypyGetVersionKeepsSuffix(out) == Strip(out)
\* mypy: version = proc.stdout.strip(); version = version.split(" (")[0]
MypyGetVersion(out) == Split(Strip(out), <<" ", "(">>)[1]

\* pyright: return proc.stdout.strip()
PyrightGetVersion(out) == Strip(out)

\* pyre: version = proc.stdout.strip(); version.replace("Client version:", "pyre")
PyreGetVersion(out) == Replace(Strip(out), ClientVersion, <<"p", "y", "r", "e">>)

\* pytype: return f"pytype {version}" with version = proc.stdout.strip()
PytypeGetVersion(out) == <<"p", "y", "t", "y", "p", "e", " ">> \o Strip(out)

MypyVersion ==
    /\ checker = "mypy"
    /\ Len(reports) < MaxCalls
    /\ reports' = Append(reports, [version |-> MypyGetVersion(stdout)])
    /\ UNCHANGED <<checker, stdout, output_json, listing, env>>

PyrightVersion ==
    /\ checker = "pyright"
    /\ Len(reports) < MaxCalls
    /\ reports' = Append(reports, [version |-> PyrightGetVersion(stdout)])
    /\ UNCHANGED <<checker, stdout, output_json, listing, env>>

PyreVersion ==
    /\ checker = "pyre"
    /\ Len(reports) < MaxCalls
    /\ reports' = Append(reports, [version |-> PyreGetVersion(stdout)])
    /\ UNCHANGED <<checker, stdout, output_json, listing, env>>

PytypeVersion ==
    /\ checker = "pytype"
    /\ Len(reports) < MaxCalls
    /\ reports' = Append(reports, [version |-> PytypeGetVersion(stdout)])
    /\ UNCHANGED <<checker, stdout, output_json, listing, env>>

VersionChars == {"1", " ", "(", NL}

\* What a version query can print, with or without pyre's label.
VersionOutputs ==
    LET bodies == SeqsUpTo(VersionChars, MaxVer)
    IN bodies \cup {ClientVersion \o b : b \in bodies}

InitVersion ==
    /\ checker \in {"mypy", "pyright", "pyre", "pytype"}
    /\ stdout \in VersionOutputs
    /\ output_json = <<>>
    /\ listing = <<>>
    /\ env = <<>>
    /\ reports = <<>>

NextVersion == MypyVersion \/ PyrightVersion \/ PyreVersion \/ PytypeVersion

SpecVersion == InitVersion /\ [][NextVersion]_vars

\* ------------------------------------------------- claims on get_version
Contains(s, pat) == Find(s, pat) # 0 \/ pat = <<>>

\* C7 as stated: every adapter's version string is single-line, has no
\* leading or trailing whitespace, and has the parenthesized suffix of the
\* raw output removed, so that it holds no " (".
C7_AsStated ==
    \A n \in DOMAIN reports :
        LET v == reports[n].version IN
        /\ ~Contains(v, <<NL>>)
        /\ v = Strip(v)
        /\ ~Contains(v, <<" ", "(">>)

\* C7 (amended): every adapter's version string has no leading whitespace
\* and no line break the trimmed raw output does not have; only the mypy
\* adapter removes the parenthesized suffix, returning the trimmed output up
\* to its first " (", so that its result holds no " ("; pyright, pyre and
\* pytype keep the suffix; pyright's and pyre's results are trimmed at both
\* ends, and pytype's is "pytype " followed by the trimmed output.
C7_VersionString ==
    \A n \in DOMAIN reports :
        LET v == reports[n].version
            raw == Strip(stdout)
            Kept == /\ Contains(raw, <<" ", "(">>) => Contains(v, <<" ", "(">>)
                    /\ Contains(raw, <<NL>>) <=> Contains(v, <<NL>>)
        IN /\ v = LStrip(v)
           /\ Contains(v, <<NL>>) => Contains(raw, <<NL>>)
           /\ checker = "mypy" =>
                /\ ~Contains(v, <<" ", "(">>)
                /\ \E k \in 0..Len(raw) : v = SubSeq(raw, 1, k)
                /\ v # raw => MatchAt(raw, <<" ", "(">>, Len(v) + 1)
           /\ checker = "pyright" => v = Strip(v) /\ Kept
           /\ checker = "pyre" => v = Strip(v) /\ Kept
           /\ checker = "pytype" =>
                /\ SubSeq(v, 1, 7) = <<"p", "y", "t", "y", "p", "e", " ">>
                /\ SubSeq(v, 8, Len(v)) = raw
                /\ Kept

\* mypy returned a version cut before the " (" of its raw output.
C7_Witness ==
    /\ reports # <<>>
    /\ checker = "mypy"
    /\ Contains(stdout, <<"1", " ", "(">>)
    /\ reports[1].version = <<"1">>

\* ------------------------------------------------------------- install
\* mypy: rmtree(".mypy_cache") with every error ignored, then pip with
\* check=True inside a bare except.
MypyInstall ==
    /\ checker = "mypy"
    /\ Len(reports) < MaxCalls
    /\ reports' = Append(reports,
            [returned |-> env.pip = "ok", raised |-> <<>>,
             rmtree_failed |-> env.cache # "present"])
    /\ env' = [env EXCEPT !.cache = IF @ = "present" THEN "absent" ELSE @,
                          !.installed = env.pip = "ok"]
    /\ UNCHANGED <<checker, stdout, output_json, listing>>

\* pyright: pip with check=True, then self.get_version(), whose subprocess
\* runs without check: only an exception of run() itself reaches the except.
PyrightInstall ==
    /\ checker = "pyright"
    /\ Len(reports) < MaxCalls
    /\ reports' = Append(reports,
            [returned |-> env.pip = "ok" /\ env.download # "raises", raised |-> <<>>,
             rmtree_failed |-> FALSE])
    /\ env' = [env EXCEPT !.installed = env.pip = "ok" /\ env.download = "ok"]
    /\ UNCHANGED <<checker, stdout, output_json, listing>>

\* pyre: rmtree(".pyre") with every error ignored, then pip with check=True
\* and the write of .pyre_configuration inside one bare except.
PyreInstall ==
    /\ checker = "pyre"
    /\ Len(reports) < MaxCalls
    /\ reports' = Append(reports,
            [returned |-> env.pip = "ok" /\ env.write = "ok", raised |-> <<>>,
             rmtree_failed |-> env.cache # "present"])
    /\ env' = [env EXCEPT !.cache = IF @ = "present" THEN "absent" ELSE @,
                          !.installed = env.pip = "ok",
                          !.config = env.pip = "ok" /\ env.write = "ok"]
    /\ UNCHANGED <<checker, stdout, output_json, listing>>

\* pytype: pip with check=True inside a bare except.
PytypeInstall ==
    /\ checker = "pytype"
    /\ Len(reports) < MaxCalls
    /\ reports' = Append(reports,
            [returned |-> env.pip = "ok", raised |-> <<>>, rmtree_failed |-> FALSE])
    /\ env' = [env EXCEPT !.installed = env.pip = "ok"]
    /\ UNCHANGED <<checker, stdout, output_json, listing>>

\* The environment of an installation: the cache directory, whether pip
\* exits with 0, whether pyright's version query downloads the tool, exits
\* non-zero or cannot be run, and whether the configuration file can be
\* written.
InitInstall ==
    /\ checker \in {"mypy", "pyright", "pyre", "pytype"}
    /\ stdout = <<>>
    /\ output_json = <<>>
    /\ listing = <<>>
    /\ env \in [cache : {"present", "absent", "undeletable"},
                pip : {"ok", "fails"},
                download : {"ok", "fails", "raises"},
                write : {"ok", "fails"},
                installed : {FALSE},
                config : {FALSE}]
    /\ reports = <<>>

NextInstall == MypyInstall \/ PyrightInstall \/ PyreInstall \/ PytypeInstall

SpecInstall == InitInstall /\ [][NextInstall]_vars

\* ----------------------------------------------------- claims on install
\* Every installation step of the adapter succeeded; the cache deletion is
\* not one of them.
StepsSucceeded ==
    /\ env.pip = "ok"
    /\ checker = "pyright" => env.download = "ok"
    /\ checker = "pyre" => env.write = "ok"

\* C6: install never raises; it returns False whenever the tool was not
\* installed and True only when every installation step succeeded (pip, the
\* download pyright's get_version triggers, pyre's configuration file); a
\* failure to delete the cache directory alone does not make it False.
C6_AsStated ==
    \A n \in DOMAIN reports :
        /\ reports[n].raised = <<>>
        /\ reports[n].returned => StepsSucceeded
        /\ StepsSucceeded /\ reports[n].rmtree_failed => reports[n].returned

\* ------------------------------------------------- the end-to-end scenario
\* A corpus of two files, one clean and one with a single diagnostic on line
\* 3, and what each tool emits for it.
ScenarioCorpus ==
    LET onLine3 == {e \in Errors : e.lineno = 3}
        names == {<<PyA, PyB>>, <<PyB, PyA>>}
    IN {<<LogEntry(n[1], <<>>), LogEntry(n[2], <<d>>)>> : n \in names, d \in onLine3}
        \cup {<<LogEntry(n[1], <<d>>), LogEntry(n[2], <<>>)>> : n \in names, d \in onLine3}

DirtyOf(l) == IF l[1].errors # <<>> THEN l[1] ELSE l[2]
CleanOf(l) == IF l[1].errors # <<>> THEN l[2] ELSE l[1]

\* mypy's and pyre's line for the diagnostic, alone, newline-terminated, or
\* followed by a summary line.
ScenarioStdout(l) ==
    LET line == DirtyOf(l).name \o <<":", "3", ":", " ">> \o DirtyOf(l).errors[1].message
    IN {line, line \o <<NL>>, line \o <<NL, "F", "o", "u", "n", "d", " ", "1", NL>>}

\* pyright's diagnostic for it: line 3 is line 2 of the zero-based range.
ScenarioJson(l) ==
    LET base == {[file |-> dir \o DirtyOf(l).name,
                  range |-> [start |-> [line |-> 2, character |-> ch]],
                  severity |-> <<"e", "r", "r", "o", "r">>,
                  message |-> DirtyOf(l).errors[1].message] :
                    dir \in {<<>>, <<"/", "d", "/">>}, ch \in {0, 4}}
    IN {[valid |-> TRUE, generalDiagnostics |-> <<d>>] :
            d \in base \cup {b @@ [rule |-> <<"r">>] : b \in base}}

InitScenario ==
    /\ checker \in {"mypy", "pyright", "pyre", "pytype"}
    /\ listing \in ScenarioCorpus
    /\ stdout \in IF checker \in {"mypy", "pyre"} THEN ScenarioStdout(listing) ELSE {<<>>}
    /\ output_json \in IF checker = "pyright" THEN ScenarioJson(listing) ELSE {<<>>}
    /\ env = <<>>
    /\ reports = <<>>

SpecScenario == InitScenario /\ [][Next]_vars

\* The value holds no diagnostic: it is empty or made of empty lines.
NoError(value) == \A i \in DOMAIN LinesOf(value) : LinesOf(value)[i] = <<>>

\* The value is exactly one line, and the line refers to line 3.
OneLineOnLine3(value) ==
    /\ Len(LinesOf(value)) = 1
    /\ \/ Contains(LinesOf(value)[1], <<":", "3", ":">>)
       \/ Contains(LinesOf(value)[1], <<"l", "i", "n", "e", " ", "3", ":">>)

\* C5 as stated: for every adapter the report has exactly two keys, the two
\* file names; the clean file's value is empty or holds no error; the other
\* file's value is exactly one line, referencing line 3.
C5_AsStated ==
    \A n \in DOMAIN reports :
        LET d == reports[n].result IN
        /\ reports[n].raised = <<>>
        /\ DOMAIN d = {listing[1].name, listing[2].name}
        /\ NoError(d[CleanOf(listing).name])
        /\ OneLineOnLine3(d[DirtyOf(listing).name])

\* C5 (amended): for every adapter the value of the file with the diagnostic
\* is exactly one line, referencing line 3; the pytype report has exactly the
\* two file names as keys and the clean file's value is a lone newline; the
\* mypy, pyre and pyright reports have no key for the clean file, pyright's
\* only key being the file with the diagnostic.
C5_Scenario ==
    \A n \in DOMAIN reports :
        LET d == reports[n].result
            clean == CleanOf(listing).name
            dirty == DirtyOf(listing).name
        IN /\ reports[n].raised = <<>>
           /\ dirty \in DOMAIN d
           /\ OneLineOnLine3(d[dirty])
           /\ checker = "pytype" => DOMAIN d = {clean, dirty} /\ d[clean] = <<NL>>
           /\ checker # "pytype" => clean \notin DOMAIN d
           /\ checker = "pyright" => DOMAIN d = {dirty}

\* Every adapter was run on the scenario: pytype listed first the file with
\* the diagnostic, whose details the report drops.
C5_Witness ==
    /\ reports # <<>>
    /\ checker = "pytype"
    /\ listing[1].errors # <<>>
    /\ listing[1].errors[1].details # <<>>
    /\ Len(LinesOf(reports[1].result[listing[1].name])) = 1

\* ---------------------------------- claims on enforce_consistent_order
\* C1: enforce_consistent_order returns the same string for any two error
\* logs that hold the same diagnostics, whatever the order in which
\* unique_sorted_errors() yields the same-line ones and whatever their details.
C1_Determinism ==
    \A m, n \in DOMAIN reports : reports[m].result = reports[n].result

\* Two runs over same-line diagnostics with different messages, the second
\* with another order and other details than the first.
C1_Witness ==
    /\ Len(reports) >= 2
    /\ ~reports[1].reordered /\ ~reports[1].redetailed
    /\ reports[2].reordered /\ reports[2].redetailed
    /\ \E i, j \in DOMAIN listing[1].errors :
        /\ listing[1].errors[i].lineno = listing[1].errors[j].lineno
        /\ listing[1].errors[i].message # listing[1].errors[j].message

\* a >= b on Python str.
StrGE(a, b) == a = b \/ StrLess(b, a)

\* The string lists the diagnostics ds, details dropped, in the order s.
Lists(result, s) ==
    result = Join(<<NL>>, [i \in DOMAIN s |->
                ErrStr([lineno |-> s[i].lineno, message |-> s[i].message,
                        details |-> <<>>])]) \o <<NL>>

HasColon(line) == \E i \in 1..Len(line) : line[i] = ":"

\* The text of a line before its first colon; the whole line when it has none.
LeadingSegment(line) ==
    IF HasColon(line)
    THEN LET c == CHOOSE i \in 1..Len(line) :
                    line[i] = ":" /\ \A j \in 1..(i - 1) : line[j] # ":"
         IN SubSeq(line, 1, c - 1)
    ELSE line

\* The output lines of the subprocess, as run_tests sees them.
OutputLines == Split(stdout, <<NL>>)

\* The output lines, in order, that key(line) sends to k.
LinesKeyed(key(_), k) == LET T(line) == key(line) = k IN SelectSeq(OutputLines, T)

WithNewlines(lines) == Concat([i \in DOMAIN lines |-> lines[i] \o <<NL>>])

StrippedSegment(line) == Strip(LeadingSegment(line))

\* Under each of its keys the report holds exactly the lines key(line) sends
\* there, in encounter order, each followed by a newline.
Accumulates(d, key(_)) ==
    \A k \in DOMAIN d : d[k] = WithNewlines(LinesKeyed(key, k))

RECURSIVE TotalLines(_, _)
\* The number of lines the entries of d under the keys ks hold.
TotalLines(d, ks) ==
    IF ks = {} THEN 0
    ELSE LET k == CHOOSE x \in ks : TRUE
         IN Len(LinesOf(d[k])) + TotalLines(d, ks \ {k})

\* The entries hold as many lines as the subprocess wrote, and each of them.
NoLineLost(d) ==
    /\ \A i \in DOMAIN OutputLines : \E k \in DOMAIN d :
            \E j \in DOMAIN LinesOf(d[k]) : LinesOf(d[k])[j] = OutputLines[i]
    /\ TotalLines(d, DOMAIN d) = Len(OutputLines)

\* C4 as stated: the value under each key is the concatenation, in encounter
\* order, of the output lines whose leading colon-delimited segment is that
\* key, and every line is in exactly one entry.
C4_AsStated ==
    \A n \in DOMAIN reports :
        /\ Accumulates(reports[n].result, LeadingSegment)
        /\ NoLineLost(reports[n].result)

\* C4 (amended): the value under each key is the concatenation, in encounter
\* order, of every output line whose leading colon-delimited segment, with
\* surrounding whitespace stripped, is that key, each followed by a newline;
\* every output line is in exactly one entry.
C4_KeyAccumulation ==
    \A n \in DOMAIN reports :
        /\ Accumulates(reports[n].result, StrippedSegment)
        /\ NoLineLost(reports[n].result)

\* Two different lines of one file were accumulated under its key.
C4_Witness ==
    /\ reports # <<>>
    /\ \E i, j \in DOMAIN OutputLines :
        /\ i < j
        /\ StrippedSegment(OutputLines[i]) = StrippedSegment(OutputLines[j])
        /\ StrippedSegment(OutputLines[i]) # <<>>
        /\ OutputLines[i] # OutputLines[j]

\* Line is one of the lines stored under key k of report d.
KeyedUnder(d, line, k) ==
    k \in DOMAIN d /\ \E i \in DOMAIN LinesOf(d[k]) : LinesOf(d[k])[i] = line

\* C8 as stated: every output line is keyed under the token that precedes
\* its first colon, and a line with no colon is keyed under the empty string.
C8_AsStated ==
    \A n \in DOMAIN reports : \A i \in DOMAIN OutputLines :
        LET line == OutputLines[i] IN
        KeyedUnder(reports[n].result, line,
                   IF HasColon(line) THEN LeadingSegment(line) ELSE <<>>)

\* C8 (amended): every output line is keyed under the text that precedes its
\* first colon with surrounding whitespace stripped, and under no other key;
\* a line with no colon is keyed under the whole stripped line, which is the
\* empty string only for a blank line.
C8_Keying ==
    \A n \in DOMAIN reports : \A i \in DOMAIN OutputLines :
        LET line == OutputLines[i]
            d == reports[n].result
        IN /\ KeyedUnder(d, line, StrippedSegment(line))
           /\ \A k \in DOMAIN d : KeyedUnder(d, line, k) => k = StrippedSegment(line)
           /\ (~HasColon(line) => StrippedSegment(line) = Strip(line))

\* A colon-less, non-blank line with whitespace around it was keyed.
C8_Witness ==
    /\ reports # <<>>
    /\ \E i \in DOMAIN OutputLines :
        /\ ~HasColon(OutputLines[i])
        /\ Strip(OutputLines[i]) # <<>>
        /\ Strip(OutputLines[i]) # OutputLines[i]
        /\ Strip(OutputLines[i]) \in DOMAIN reports[1].result

====
